---- MODULE Spec2Model ----
(***************************************************************************)
(* Conversation store and inference proxy of the AI-Dashboard Flask        *)
(* application (src/routes/ai.py), together with the session handling of   *)
(* src/routes/routes.py that decides who may use it.                       *)
(*                                                                         *)
(* Requests are served by concurrent handler threads that share the module *)
(* level dict conversation_cache and the list objects it holds; the code   *)
(* takes no lock.  A handler runs in steps, and other handlers may run     *)
(* between two steps.  The steps of chat_api are:                          *)
(*   - the membership test of get_user_conversation, the creation of a     *)
(*     missing entry, and the fetch of the list, which runs on through     *)
(*     validation, the append of the user turn and the posting of the      *)
(*     copy (lines 48-94);                                                 *)
(*   - the arrival of the outcome of the inference call, with the append   *)
(*     of the assistant turn (lines 96-105);                               *)
(*   - the trimming statement (lines 109-111);                             *)
(*   - the test of a rollback and its pop (lines 120-121 and their copies).*)
(* List objects live in a heap, because chat_api keeps a reference to the  *)
(* list it fetched while clear_user_conversation and the trimming          *)
(* assignment rebind the dict entry to a new list.                         *)
(*                                                                         *)
(* The fields id, pre, post, known, overlap, appended and truncated of a   *)
(* call, its fields kind, afterclear and wiped, the id of a turn, and the   *)
(* variables posted and resp record what happened; the program does not    *)
(* read them.                                                              *)
(***************************************************************************)
EXTENDS Integers, Sequences, FiniteSets, TLC

\* ---------------------------------------------------------------- bounds
\* handler threads the server runs at a time, and chat requests it receives
MaxCalls == 2
MaxSends == 2

\* ------------------------------------------------------ program constants
MAX_MESSAGES == 24

\* the ids of the rows of the User table
Users == {1, 2}
NUsers == Cardinality(Users)
\* one browser per user; in Spec browser c is logged in as user c
Clients == Users
Calls == 1..MaxCalls
NoUser == 0
Absent == 0
NoObj == 0
ObjIds == 1..(NUsers + MaxCalls + 1)

Msgs == {"m1"}
Replies == {"r1"}
SystemPrompt == "You are an expert AI assistant specialized in IoT dashboard design"

Turn(role, content, id) == [role |-> role, content |-> content, id |-> id]

\* what the client and the model see of a turn: the ghost id dropped
Visible(s) == [i \in 1..Len(s) |-> [role |-> s[i].role, content |-> s[i].content]]

Last(s) == s[Len(s)]
ButLast(s) == SubSeq(s, 1, Len(s) - 1)

Min(a, b) == IF a <= b THEN a ELSE b

\* s[:n] for s[-n:]
LastN_first(s, n) == IF Len(s) <= n THEN s ELSE SubSeq(s, 1, n)

\* Python's s[-n:]
LastN(s, n) == IF Len(s) <= n THEN s ELSE SubSeq(s, Len(s) - n + 1, Len(s))

\* a transcript left by n sequential successful exchanges
RECURSIVE Exchanges(_)
Exchanges(n) ==
    IF n = 0 THEN << >>
    ELSE Exchanges(n - 1) \o << Turn("user", IF n % 2 = 0 THEN "m1" ELSE "m2", 0),
                                Turn("assistant", "r1", 0) >>

VARIABLES accounts, session, conversation_cache, heap, calls, nreq, posted, resp

vars == << accounts, session, conversation_cache, heap, calls, nreq, posted, resp >>

IdleCall ==
    [op |-> "none", pc |-> "idle", client |-> 0, user |-> NoUser, conversation |-> NoObj,
     body |-> "none", msg |-> "", id |-> 0, status |-> 0, where |-> "none",
     reply |-> "", fault |-> FALSE, pre |-> << >>, post |-> << >>, overlap |-> FALSE,
     known |-> FALSE, appended |-> FALSE, truncated |-> FALSE,
     kind |-> "none", afterclear |-> FALSE, wiped |-> {}]

NoResp == [op |-> "none", client |-> 0, sess |-> NoUser, status |-> 0, fault |-> FALSE,
           history |-> << >>, call |-> IdleCall]

NoReq == [user |-> NoUser, id |-> 0, messages |-> << >>]

Response(op, c, u, status, fault, history, call) ==
    [op |-> op, client |-> c, sess |-> u, status |-> status, fault |-> fault,
     history |-> history, call |-> call]

\* -------------------------------------------------------------- the heap
Referenced(cache, cl, o) ==
    \/ \E u \in Users : cache[u] = o
    \/ \E k \in Calls : cl[k].conversation = o

NewObj(cache, cl) ==
    CHOOSE o \in ObjIds : /\ ~Referenced(cache, cl, o)
                          /\ \A p \in ObjIds : p < o => Referenced(cache, cl, p)

\* A list nothing refers to any more is gone, and the identity of a list is
\* only what refers to it: lists are renumbered in the order in which the
\* dict entries and then the handlers' local variables refer to them.
Refs(cache, cl) ==
    [i \in 1..(NUsers + MaxCalls) |->
        IF i <= NUsers THEN cache[i] ELSE cl[i - NUsers].conversation]

\* the new number of the list that reference i points to
RankAt(refs, i) == Cardinality({ refs[j] : j \in 1..i } \ {NoObj})

Renumber(refs, o) ==
    IF o = NoObj THEN NoObj
    ELSE RankAt(refs, CHOOSE i \in DOMAIN refs :
                         /\ refs[i] = o
                         /\ \A j \in DOMAIN refs : j < i => refs[j] # o)

CollectCache(cache, cl) == [u \in Users |-> Renumber(Refs(cache, cl), cache[u])]

CollectCalls(cache, cl) ==
    [k \in Calls |-> [cl[k] EXCEPT !.conversation = Renumber(Refs(cache, cl), @)]]

Collect(cache, cl, h) ==
    LET refs == Refs(cache, cl)
    IN  [n \in ObjIds |->
            IF \E i \in DOMAIN refs : refs[i] # NoObj /\ RankAt(refs, i) = n
            THEN h[refs[CHOOSE i \in DOMAIN refs : refs[i] # NoObj /\ RankAt(refs, i) = n]]
            ELSE << >>]

\* the transcript of user u as conversation_cache holds it
Stored(u) == IF conversation_cache[u] = Absent THEN << >> ELSE heap[conversation_cache[u]]

\* another request of user u runs a step: every other live call of u overlaps it
Touch(cl, u, k) ==
    [j \in Calls |-> IF j # k /\ cl[j].op # "none" /\ cl[j].user = u
                     THEN [cl[j] EXCEPT !.overlap = TRUE] ELSE cl[j]]

Busy(u, k) == \E j \in Calls : j # k /\ calls[j].op # "none" /\ calls[j].user = u

\* a server that handles one request at a time
FreeSlot_single(k) == k = 1 /\ \A j \in Calls : calls[j].op = "none"

FreeSlot(k) == /\ calls[k].op = "none"
                /\ \A j \in Calls : j < k => calls[j].op # "none"

\* handler threads have no identity of their own: the live calls are kept in
\* the first slots, in the order in which they started
Compact(cl) ==
    LET live == SelectSeq([i \in 1..MaxCalls |-> i], LAMBDA i : cl[i].op # "none")
    IN  [k \in Calls |-> IF k <= Len(live) THEN cl[live[k]] ELSE IdleCall]

\* ----------------------------------------------------------------- Init
\* user 1 has had MAX_MESSAGES / 2 exchanges, nobody else has been seen yet
Stores ==
    /\ conversation_cache = [u \in Users |-> IF u = 1 THEN 1 ELSE Absent]
    /\ heap = [o \in ObjIds |-> IF conversation_cache[1] = o
                                THEN Exchanges(MAX_MESSAGES \div 2) ELSE << >>]
    /\ calls = [k \in Calls |-> IdleCall]
    /\ nreq = 0
    /\ posted = NoReq
    /\ resp = NoResp

\* every account exists and client c has logged in as user c
Init ==
    /\ accounts = Users
    /\ session = [c \in Clients |-> c]
    /\ Stores

\* every account exists and nobody has logged in yet
InitAuth ==
    /\ accounts = Users
    /\ session = [c \in Clients |-> NoUser]
    /\ Stores

\* ------------------------------------------------- routes.py: the session
login_post(c, u, pwok) ==
    /\ IF u \in accounts /\ pwok
       THEN session' = [session EXCEPT ![c] = u]
       ELSE UNCHANGED session
    /\ posted' = NoReq
    /\ resp' = NoResp
    /\ UNCHANGED << accounts, conversation_cache, heap, calls, nreq >>

register_post(u) ==
    /\ IF u \in accounts
       THEN UNCHANGED accounts
       ELSE accounts' = accounts \cup {u}
    /\ posted' = NoReq
    /\ resp' = NoResp
    /\ UNCHANGED << session, conversation_cache, heap, calls, nreq >>

logout(c) ==
    /\ session' = [session EXCEPT ![c] = NoUser]
    /\ posted' = NoReq
    /\ resp' = NoResp
    /\ UNCHANGED << accounts, conversation_cache, heap, calls, nreq >>

delete_account(c) ==
    /\ IF session[c] # NoUser /\ session[c] \in accounts
       THEN /\ accounts' = accounts \ {session[c]}
            /\ session' = [session EXCEPT ![c] = NoUser]
       ELSE UNCHANGED << accounts, session >>
    /\ posted' = NoReq
    /\ resp' = NoResp
    /\ UNCHANGED << conversation_cache, heap, calls, nreq >>

\* a guard that lets every request through
login_required_open(c) == TRUE

\* ai.py: the guard of every /api/chat route
login_required(c) == session[c] # NoUser

Unauthorized(op, c) ==
    /\ resp' = Response(op, c, NoUser, 401, FALSE, << >>, IdleCall)
    /\ posted' = NoReq
    /\ UNCHANGED << accounts, session, conversation_cache, heap, calls, nreq >>

\* session['user_id'] of a session that has none: KeyError outside any try
KeyError(op, c) ==
    /\ resp' = Response(op, c, NoUser, 500, TRUE, << >>, IdleCall)
    /\ posted' = NoReq
    /\ UNCHANGED << accounts, session, conversation_cache, heap, calls, nreq >>

\* ------------------------------------------------ ai.py: handler threads
\* The common tail of a handler step of call k: nc is the call afterwards
\* (pc "return" when the handler returns in this step).
Step(k, nc, newcache, newheap) ==
    LET u == nc.user
        cl == Compact([Touch(calls, u, k) EXCEPT
                          ![k] = IF nc.pc = "return" THEN IdleCall ELSE nc])
    IN  /\ calls' = CollectCalls(newcache, cl)
        /\ conversation_cache' = CollectCache(newcache, cl)
        /\ heap' = Collect(newcache, cl, newheap)
        /\ resp' = IF nc.pc = "return"
                   THEN Response(nc.op, nc.client, u, nc.status, nc.fault,
                                 IF nc.op = "history" THEN Visible(newheap[nc.conversation])
                                                      ELSE << >>,
                                 nc)
                   ELSE NoResp
        /\ UNCHANGED << accounts, session >>

\* a system turn put after the first message
Messages_last(conversation) ==
    IF Len(conversation) = 1
    THEN conversation \o << Turn("system", SystemPrompt, 0) >>
    ELSE conversation

\* messages = conversation.copy() and the system turn of a first message
Messages(conversation) ==
    IF Len(conversation) = 1
    THEN << Turn("system", SystemPrompt, 0) >> \o conversation
    ELSE conversation

\* `return conversation_cache[user_id]` hands list o to the handler, which
\* runs on to the point where it waits or returns:
\*   get_chat_history returns the list;
\*   chat_api without a JSON body raises on data.get and lands in the last
\*   except clause; with an empty message it returns 400; otherwise it
\*   appends the user turn, copies the list and posts the copy.
Fetched(k, call, o) ==
    IF call.op = "history"
    THEN /\ Step(k, [call EXCEPT !.conversation = o, !.pc = "return", !.status = 200],
                 conversation_cache, heap)
         /\ posted' = NoReq
    ELSE IF call.body = "none"
    THEN /\ Step(k, [call EXCEPT !.conversation = o, !.pc = "rollback", !.status = 500,
                                 !.where = "handler", !.kind = "error"],
                 conversation_cache, heap)
         /\ posted' = NoReq
    ELSE IF call.msg = ""
    THEN /\ Step(k, [call EXCEPT !.conversation = o, !.pc = "return", !.status = 400],
                 conversation_cache, heap)
         /\ posted' = NoReq
    ELSE LET conversation == Append(heap[o], Turn("user", call.msg, call.id))
         IN  /\ Step(k, [call EXCEPT !.conversation = o, !.pc = "waiting",
                                     !.appended = TRUE],
                     conversation_cache, [heap EXCEPT ![o] = conversation])
             /\ posted' = [user |-> call.user, id |-> call.id,
                           messages |-> Visible(Messages(conversation))]

\* get_user_conversation: `if user_id not in conversation_cache`
Entered(k, call) ==
    IF conversation_cache[call.user] = Absent
    THEN /\ Step(k, [call EXCEPT !.pc = "create"], conversation_cache, heap)
         /\ posted' = NoReq
    ELSE Fetched(k, call, conversation_cache[call.user])

chat_api(c, k, body, m) ==
    IF ~login_required(c) THEN Unauthorized("chat", c)
    ELSE IF session[c] = NoUser THEN KeyError("chat", c)
    ELSE /\ FreeSlot(k)
         /\ nreq < MaxSends
         /\ nreq' = nreq + 1
         /\ Entered(k, [IdleCall EXCEPT !.op = "chat", !.client = c, !.user = session[c],
                                        !.body = body, !.msg = m, !.id = nreq + 1,
                                        !.pre = Stored(session[c]),
                                        !.known = (conversation_cache[session[c]] # Absent),
                                        !.overlap = Busy(session[c], k)])

get_chat_history(c, k) ==
    IF ~login_required(c) THEN Unauthorized("history", c)
    ELSE IF session[c] = NoUser THEN KeyError("history", c)
    ELSE /\ FreeSlot(k)
         /\ UNCHANGED nreq
         /\ Entered(k, [IdleCall EXCEPT !.op = "history", !.client = c,
                                        !.user = session[c],
                                        !.afterclear = (resp.op = "clear" /\
                                                        resp.sess = session[c]),
                                        !.pre = Stored(session[c]),
                                        !.known = (conversation_cache[session[c]] # Absent),
                                        !.overlap = Busy(session[c], k)])

\* conversation_cache[user_id] = []
get_create(k) ==
    /\ calls[k].pc = "create"
    /\ posted' = NoReq
    /\ UNCHANGED nreq
    /\ LET o == NewObj(conversation_cache, calls)
       IN  Step(k, [calls[k] EXCEPT !.pc = "fetch"],
                [conversation_cache EXCEPT ![calls[k].user] = o],
                [heap EXCEPT ![o] = << >>])

\* return conversation_cache[user_id]
get_fetch(k) ==
    /\ calls[k].pc = "fetch"
    /\ UNCHANGED nreq
    /\ Fetched(k, calls[k], conversation_cache[calls[k].user])

Outcomes == {"ok", "empty", "non200", "timeout", "connerr", "other"}

\* the status each failure branch returns, and whether its rollback runs
\* in the try body or in an except handler
StatusOf(outcome) == IF outcome = "timeout" THEN 504 ELSE 500
WhereOf(outcome) == IF outcome \in {"empty", "non200"} THEN "try" ELSE "handler"

\* the kinds of outcome the statuses tell apart
KindOf(outcome) == IF outcome \in {"ok", "timeout"} THEN outcome ELSE "error"

\* the inference endpoint answers, or requests.post raises; a reply with
\* content is appended as the assistant turn
chat_reply(k, outcome, r) ==
    /\ calls[k].pc = "waiting"
    /\ posted' = NoReq
    /\ UNCHANGED nreq
    /\ LET o == calls[k].conversation
           said == Append(heap[o], Turn("assistant", r, calls[k].id))
       IN  IF outcome = "ok"
           THEN Step(k, [calls[k] EXCEPT !.pc = "trim", !.reply = r, !.post = said,
                                         !.kind = KindOf(outcome)],
                     conversation_cache, [heap EXCEPT ![o] = said])
           ELSE Step(k, [calls[k] EXCEPT !.pc = "rollback",
                                         !.status = StatusOf(outcome),
                                         !.where = WhereOf(outcome),
                                         !.kind = KindOf(outcome)],
                     conversation_cache, heap)

\* if len(conversation) > MAX_MESSAGES:
\*     conversation_cache[user_id] = conversation[-MAX_MESSAGES:]
chat_trim(k) ==
    /\ calls[k].pc = "trim"
    /\ posted' = NoReq
    /\ UNCHANGED nreq
    /\ LET o == NewObj(conversation_cache, calls)
           conversation == heap[calls[k].conversation]
       IN  IF Len(conversation) > MAX_MESSAGES
           THEN Step(k, [calls[k] EXCEPT !.pc = "return", !.status = 200,
                                         !.truncated = TRUE],
                     [conversation_cache EXCEPT ![calls[k].user] = o],
                     [heap EXCEPT ![o] = LastN(conversation, MAX_MESSAGES)])
           ELSE Step(k, [calls[k] EXCEPT !.pc = "return", !.status = 200],
                     conversation_cache, heap)

\* a rollback test that looks for the wrong role
EndsWithUser_assistant(s) == Len(s) > 0 /\ Last(s).role = "assistant"

\* if conversation and conversation[-1]['role'] == 'user'
EndsWithUser(s) == Len(s) > 0 /\ Last(s).role = "user"

rollback_check(k) ==
    /\ calls[k].pc = "rollback"
    /\ posted' = NoReq
    /\ UNCHANGED nreq
    /\ IF EndsWithUser(heap[calls[k].conversation])
       THEN Step(k, [calls[k] EXCEPT !.pc = "pop"], conversation_cache, heap)
       ELSE Step(k, [calls[k] EXCEPT !.pc = "return"], conversation_cache, heap)

\* conversation.pop(); on a list emptied meanwhile it raises IndexError, which
\* `except Exception` catches when raised in the try body and nothing catches
\* when raised in an except handler
rollback_pop(k) ==
    /\ calls[k].pc = "pop"
    /\ posted' = NoReq
    /\ UNCHANGED nreq
    /\ LET o == calls[k].conversation
       IN  IF Len(heap[o]) = 0
           THEN IF calls[k].where = "try"
                THEN Step(k, [calls[k] EXCEPT !.pc = "rollback", !.where = "handler",
                                              !.status = 500],
                          conversation_cache, heap)
                ELSE Step(k, [calls[k] EXCEPT !.pc = "return", !.status = 500,
                                              !.fault = TRUE],
                          conversation_cache, heap)
           ELSE Step(k, [calls[k] EXCEPT !.pc = "return"],
                     conversation_cache, [heap EXCEPT ![o] = ButLast(@)])

\* a clear that rebinds nothing
clear_user_conversation_keep(cache, u, o) == cache

\* a clear that empties the whole dict
clear_user_conversation_all(cache, u, o) ==
    [v \in Users |-> IF cache[v] # Absent THEN o ELSE Absent]

\* if user_id in conversation_cache: conversation_cache[user_id] = []
\* (o is the new empty list)
clear_user_conversation(cache, u, o) ==
    IF cache[u] # Absent THEN [cache EXCEPT ![u] = o] ELSE cache

\* the turns of s, each known by its role and the call that appended it
Turns(s) == { << s[i].role, s[i].id >> : i \in 1..Len(s) }

\* the clear of user u ran while call j of u waited for the endpoint
Wiped(cl, u) ==
    [j \in Calls |-> IF cl[j].op = "chat" /\ cl[j].user = u /\ cl[j].pc = "waiting"
                     THEN [cl[j] EXCEPT !.wiped = @ \cup Turns(Stored(u))]
                     ELSE cl[j]]

\* clear_user_conversation(session['user_id'])
clear_chat(c) ==
    IF ~login_required(c) THEN Unauthorized("clear", c)
    ELSE IF session[c] = NoUser THEN KeyError("clear", c)
    ELSE LET u == session[c]
             o == NewObj(conversation_cache, calls)
             newcache == clear_user_conversation(conversation_cache, u, o)
             cl == Wiped(Touch(calls, u, 0), u)
         IN  /\ conversation_cache' = CollectCache(newcache, cl)
             /\ calls' = CollectCalls(newcache, cl)
             /\ heap' = Collect(newcache, cl, [heap EXCEPT ![o] = << >>])
             /\ resp' = Response("clear", c, u, 200, FALSE, << >>, IdleCall)
             /\ posted' = NoReq
             /\ UNCHANGED << accounts, session, nreq >>

get_model_info(c) ==
    IF ~login_required(c) THEN Unauthorized("model", c)
    ELSE /\ resp' = Response("model", c, session[c], 200, FALSE, << >>, IdleCall)
         /\ posted' = NoReq
         /\ UNCHANGED << accounts, session, conversation_cache, heap, calls, nreq >>

\* the bodies a client posts: no JSON at all, or JSON whose message is
\* missing or empty (''), or JSON with a message
Requests == {[body |-> "none", msg |-> ""]} \cup [body : {"json"}, msg : Msgs \cup {""}]

Next ==
    \/ \E c \in Clients, k \in Calls, rq \in Requests : chat_api(c, k, rq.body, rq.msg)
    \/ \E c \in Clients, k \in Calls : get_chat_history(c, k)
    \/ \E k \in Calls : get_create(k)
    \/ \E k \in Calls : get_fetch(k)
    \/ \E k \in Calls, outcome \in Outcomes, r \in Replies : chat_reply(k, outcome, r)
    \/ \E k \in Calls : chat_trim(k)
    \/ \E k \in Calls : rollback_check(k)
    \/ \E k \in Calls : rollback_pop(k)
    \/ \E c \in Clients : clear_chat(c)

\* the concurrent server, its clients logged in
Spec == Init /\ [][Next]_vars

\* nothing but chat requests, on a store that has seen nobody yet
InitSends ==
    /\ accounts = Users
    /\ session = [c \in Clients |-> c]
    /\ conversation_cache = [u \in Users |-> Absent]
    /\ heap = [o \in ObjIds |-> << >>]
    /\ calls = [k \in Calls |-> IdleCall]
    /\ nreq = 0
    /\ posted = NoReq
    /\ resp = NoResp

NextSends ==
    \/ \E c \in Clients, k \in Calls, rq \in Requests : chat_api(c, k, rq.body, rq.msg)
    \/ \E k \in Calls : get_create(k)
    \/ \E k \in Calls : get_fetch(k)
    \/ \E k \in Calls, outcome \in Outcomes, r \in Replies : chat_reply(k, outcome, r)
    \/ \E k \in Calls : chat_trim(k)
    \/ \E k \in Calls : rollback_check(k)
    \/ \E k \in Calls : rollback_pop(k)

SpecSends == InitSends /\ [][NextSends]_vars

\* the server as a client that awaits each answer before its next request
\* drives it: users in parallel, the requests of one user one after another
Alone(c) == \A k \in Calls : calls[k].op = "none" \/ calls[k].user # session[c]

NextTurns ==
    \/ \E c \in Clients, k \in Calls, rq \in Requests :
          Alone(c) /\ chat_api(c, k, rq.body, rq.msg)
    \/ \E c \in Clients, k \in Calls : Alone(c) /\ get_chat_history(c, k)
    \/ \E k \in Calls : get_create(k)
    \/ \E k \in Calls : get_fetch(k)
    \/ \E k \in Calls, outcome \in Outcomes, r \in Replies : chat_reply(k, outcome, r)
    \/ \E k \in Calls : chat_trim(k)
    \/ \E k \in Calls : rollback_check(k)
    \/ \E k \in Calls : rollback_pop(k)
    \/ \E c \in Clients : Alone(c) /\ clear_chat(c)

SpecTurns == Init /\ [][NextTurns]_vars

Quiet == \A k \in Calls : calls[k].op = "none"

\* the account routes, followed through one browser, around a server that
\* takes one chat request at a time
AuthClients == { c \in Clients : c = 1 }

NextAuth ==
    \/ \E c \in AuthClients, u \in Users, pwok \in BOOLEAN : login_post(c, u, pwok)
    \/ \E u \in Users : register_post(u)
    \/ \E c \in AuthClients : logout(c)
    \/ \E c \in AuthClients : delete_account(c)
    \/ \E c \in AuthClients, k \in Calls, rq \in Requests :
          Quiet /\ chat_api(c, k, rq.body, rq.msg)
    \/ \E c \in AuthClients, k \in Calls : Quiet /\ get_chat_history(c, k)
    \/ \E k \in Calls : get_create(k)
    \/ \E k \in Calls : get_fetch(k)
    \/ \E k \in Calls, outcome \in Outcomes, r \in Replies : chat_reply(k, outcome, r)
    \/ \E k \in Calls : chat_trim(k)
    \/ \E k \in Calls : rollback_check(k)
    \/ \E k \in Calls : rollback_pop(k)
    \/ \E c \in AuthClients : clear_chat(c)
    \/ \E c \in AuthClients : get_model_info(c)

SpecAuth == InitAuth /\ [][NextAuth]_vars

TypeOK ==
    /\ accounts \subseteq Users
    /\ session \in [Clients -> Users \cup {NoUser}]
    /\ conversation_cache \in [Users -> ObjIds \cup {Absent}]
    /\ nreq \in 0..MaxSends

\* ------------------------------------------------------------ properties
ChatReturned == resp.op = "chat" /\ resp.call.op = "chat"

\* a chat_api call of user u is between its append and its return
InFlight(k, u) ==
    /\ calls[k].op = "chat"
    /\ calls[k].user = u
    /\ calls[k].appended

Sending(u) == \E k \in Calls : calls[k].op = "chat" /\ calls[k].user = u

\* the n last turns of s
Suffix(s, n) == [i \in 1..Min(n, Len(s)) |-> s[Len(s) - Min(n, Len(s)) + i]]

\* C1: a chat_api call that fails after it appended its user turn, and that
\* no other request of the same user overlapped, leaves the user's stored
\* transcript equal, turn for turn, to the transcript before the call.
C1_RollbackRestores ==
    (ChatReturned /\ resp.call.appended /\ resp.status # 200 /\ ~resp.call.overlap)
        => Stored(resp.sess) = resp.call.pre

C1_Witness ==
    /\ ChatReturned
    /\ resp.call.appended
    /\ resp.status = 504
    /\ ~resp.call.overlap
    /\ Len(resp.call.pre) > 0

\* C2: at most one chat_api call per user is between appending its user turn
\* and reconciling the outcome of the inference call.
C2_OneInFlightPerUser ==
    \A u \in Users : Cardinality({ k \in Calls : InFlight(k, u) }) <= 1

\* C3: once all chat_api calls of a user have returned, on a store that only
\* chat requests have touched, every user turn of the transcript is followed
\* at once by the assistant turn of the same call, no call has two user
\* turns, and the call that returned last has a user turn exactly if it
\* succeeded.
PairedTurns(t) ==
    /\ \A i \in 1..Len(t) :
          t[i].role = "user" =>
              /\ i < Len(t)
              /\ t[i + 1].role = "assistant"
              /\ t[i + 1].id = t[i].id
    /\ \A i, j \in 1..Len(t) :
          (t[i].role = "user" /\ t[j].role = "user" /\ t[i].id = t[j].id) => i = j

C3_ConcurrentSendsPaired ==
    (ChatReturned /\ ~Sending(resp.sess))
        => /\ PairedTurns(Stored(resp.sess))
           /\ (resp.status = 200) =
                 (\E i \in 1..Len(Stored(resp.sess)) :
                     /\ Stored(resp.sess)[i].role = "user"
                     /\ Stored(resp.sess)[i].id = resp.call.id)

\* C4 as stated: a successful chat_api call that no other request of the
\* same user overlapped leaves the transcript exactly 2 turns longer, ending
\* with its user turn and its assistant turn.
C4_GrowsByTwo ==
    (ChatReturned /\ resp.status = 200 /\ ~resp.call.overlap)
        => /\ Len(Stored(resp.sess)) = Len(resp.call.pre) + 2
           /\ Suffix(Stored(resp.sess), 2) =
                 << Turn("user", resp.call.msg, resp.call.id),
                    Turn("assistant", resp.call.reply, resp.call.id) >>

\* C4 amended: such a call leaves the last MAX_MESSAGES turns of the former
\* transcript followed by its user turn and its assistant turn, hence a
\* transcript 2 turns longer only when that does not exceed MAX_MESSAGES.
C4_GrowsByTwoOrTrims ==
    (ChatReturned /\ resp.status = 200 /\ ~resp.call.overlap)
        => /\ Len(Stored(resp.sess)) = Min(Len(resp.call.pre) + 2, MAX_MESSAGES)
           /\ Stored(resp.sess) =
                 Suffix(resp.call.pre \o << Turn("user", resp.call.msg, resp.call.id),
                                            Turn("assistant", resp.call.reply, resp.call.id) >>,
                        MAX_MESSAGES)

C4_Witness ==
    /\ ChatReturned
    /\ resp.status = 200
    /\ ~resp.call.overlap
    /\ resp.call.truncated
    /\ Len(resp.call.pre) = MAX_MESSAGES

\* C5: after a successful chat_api call the stored transcript has at most
\* MAX_MESSAGES turns, and when the call trimmed it the stored transcript is
\* the last MAX_MESSAGES turns of the list as it was right after the
\* assistant turn was appended.
C5_TruncationLaw ==
    (ChatReturned /\ resp.status = 200)
        => /\ Len(Stored(resp.sess)) <= MAX_MESSAGES
           /\ resp.call.truncated
                 => Stored(resp.sess) = Suffix(resp.call.post, MAX_MESSAGES)

\* C6: whenever no chat_api call of a user is in flight, that user's stored
\* transcript does not end with a user turn.
C6_NoDanglingUserTurn ==
    \A u \in Users : ~Sending(u) => ~EndsWithUser(Stored(u))

\* C7: get_chat_history never returns a transcript whose last turn is the
\* user turn of a chat_api call of that user that is still waiting for the
\* inference endpoint.
C7_HistoryHidesSpeculativeTurn ==
    (resp.op = "history" /\ resp.status = 200)
        => \A k \in Calls :
              (InFlight(k, resp.sess) /\ calls[k].pc = "waiting")
                  => ~ /\ resp.history = Visible(heap[calls[k].conversation])
                       /\ Last(heap[calls[k].conversation]).id = calls[k].id
                       /\ Last(heap[calls[k].conversation]).role = "user"

\* C8: a successful first message m with reply r on an empty transcript
\* leaves exactly [system turn, user turn m, assistant turn r] in the store.
C8_FirstExchangeStored ==
    (ChatReturned /\ resp.status = 200 /\ ~resp.call.overlap /\ Len(resp.call.pre) = 0)
        => Visible(Stored(resp.sess)) =
              << [role |-> "system", content |-> SystemPrompt],
                 [role |-> "user", content |-> resp.call.msg],
                 [role |-> "assistant", content |-> resp.call.reply] >>

\* C9: a chat_api request with an empty or absent message returns 400 and
\* leaves the store as it was: the user has an entry afterwards only if it
\* had one before, the transcript is the same, and nothing was appended or
\* posted.
C9_InvalidInputLeavesStore ==
    (ChatReturned /\ resp.call.body = "json" /\ resp.call.msg = "" /\ ~resp.call.overlap)
        => /\ resp.status = 400
           /\ ~resp.call.appended
           /\ Stored(resp.sess) = resp.call.pre
           /\ (conversation_cache[resp.sess] # Absent) = resp.call.known

\* C10: a request to /api/chat, /api/chat/clear, /api/chat/history or
\* /api/chat/model whose session carries no user id is answered 401, changes
\* nothing in the store and posts no inference request.
ProtectedOps == {"chat", "clear", "history", "model"}

C11_FailuresStructured ==
    ChatReturned
        => /\ ~resp.fault
           /\ (resp.call.body = "json" /\ resp.call.msg = "") => resp.status = 400
           /\ resp.call.kind = "timeout" => resp.status = 504
           /\ resp.call.kind = "error" => resp.status = 500
           /\ (resp.call.kind = "timeout" /\ Len(resp.call.pre) = 0 /\ ~resp.call.overlap)
                 => Stored(resp.sess) = << >>

\* C12: clear_chat of a logged-in user always answers 200 and leaves that
\* user's transcript empty, whether the entry was absent, empty or not
\* empty; a second clear_chat right after it leaves the same empty
\* transcript; and a get_chat_history that follows a clear_chat returns the
\* empty sequence.
C12_ClearIdempotent ==
    /\ []((resp.op = "history" /\ resp.call.afterclear)
             => (resp.status = 200 /\ resp.history = << >>))
    /\ [][ \A u \in Users :
              (resp'.op = "clear" /\ resp'.sess = u)
                  => /\ resp'.status = 200
                     /\ ~resp'.fault
                     /\ Stored(u)' = << >>
                     /\ (resp.op = "clear" /\ resp.sess = u) => Stored(u)' = Stored(u) ]_vars

C12_Witness ==
    /\ resp.op = "history"
    /\ resp.call.afterclear
    /\ ~resp.call.known
    /\ resp.history = << >>

\* C13: a system turn is never anywhere but at index 0 of a list, stored or
\* held by a handler, hence at most one per transcript; and the messages
\* posted upstream carry a system turn only at index 0 and only when the
\* transcript holds nothing but the first user turn.
SystemAt0(t) == \A i \in 1..Len(t) : t[i].role = "system" => i = 1

C13_SystemTurnLaw ==
    /\ \A o \in ObjIds : SystemAt0(heap[o])
    /\ posted # NoReq
          => /\ SystemAt0(posted.messages)
             /\ posted.messages[1].role = "system"
                   => /\ Len(posted.messages) = 2
                      /\ posted.messages[2].role = "user"

C13_Witness ==
    /\ posted # NoReq
    /\ posted.messages[1].role = "system"
    /\ Visible(Stored(posted.user)) = << posted.messages[2] >>

\* a step of the handler thread k
StepOf(k) ==
    \/ get_create(k)
    \/ get_fetch(k)
    \/ \E outcome \in Outcomes, r \in Replies : chat_reply(k, outcome, r)
    \/ chat_trim(k)
    \/ rollback_check(k)
    \/ rollback_pop(k)

\* a step of a request of user a: its arrival or a step of its handler
ActsFor(a) ==
    \/ \E c \in Clients, k \in Calls, rq \in Requests :
          session[c] = a /\ chat_api(c, k, rq.body, rq.msg)
    \/ \E c \in Clients, k \in Calls : session[c] = a /\ get_chat_history(c, k)
    \/ \E c \in Clients : session[c] = a /\ clear_chat(c)
    \/ \E k \in Calls : calls[k].op # "none" /\ calls[k].user = a /\ StepOf(k)

\* C14: no step of a request of user a (chat_api with any outcome,
\* clear_chat, get_chat_history), in any interleaving, changes the transcript
\* of another user b or whether b has an entry in conversation_cache.
C14_NoCrossUser ==
    [][ \A b \in Users :
          (\/ Stored(b)' # Stored(b)
           \/ (conversation_cache'[b] = Absent) # (conversation_cache[b] = Absent))
              => \A a \in Users \ {b} : ~ActsFor(a) ]_vars

C14_Witness ==
    /\ ChatReturned
    /\ resp.sess = 1
    /\ resp.call.truncated
    /\ Len(Stored(2)) > 0

Waits(a) ==
    \E k \in Calls : calls[k].op = "chat" /\ calls[k].user = a /\ calls[k].pc = "waiting"

\* the step leaves every waiting chat_api call of user a waiting
KeepsWaiting(a) ==
    \A k \in Calls :
        (calls[k].op = "chat" /\ calls[k].user = a /\ calls[k].pc = "waiting")
            => \E j \in Calls : calls'[j].id = calls[k].id /\ calls'[j].pc = "waiting"

\* C15: while a chat_api call of user a waits for the inference endpoint,
\* every request of another user b can arrive (as long as the server has a
\* thread for it) and every handler of b can take its next step, each
\* without a step of a's call: b's requests run to completion before a's
\* call returns.
C15_OtherUsersNotBlocked ==
    \A a \in Users :
        Waits(a) =>
            \A b \in Users \ {a} :
                /\ \A c \in Clients :
                      session[c] = b =>
                          /\ ENABLED (clear_chat(c) /\ KeepsWaiting(a))
                          /\ (\E k \in Calls : calls[k].op = "none")
                                => ENABLED (\E k \in Calls :
                                               get_chat_history(c, k) /\ KeepsWaiting(a))
                          /\ ((\E k \in Calls : calls[k].op = "none") /\ nreq < MaxSends)
                                => \A rq \in Requests :
                                      ENABLED (\E k \in Calls :
                                                  /\ chat_api(c, k, rq.body, rq.msg)
                                                  /\ KeepsWaiting(a))
                /\ \A j \in Calls :
                      (calls[j].op # "none" /\ calls[j].user = b)
                          => ENABLED (StepOf(j) /\ KeepsWaiting(a))

C15_Witness ==
    /\ ChatReturned
    /\ resp.sess = 2
    /\ resp.status = 200
    /\ \E k \in Calls : /\ calls[k].op = "chat"
                         /\ calls[k].user = 1
                         /\ calls[k].pc = "waiting"
                         /\ calls[k].id < resp.call.id

\* C16: the pop of a failing chat_api call never removes a user turn that
\* another chat_api call appended, in any interleaving of the requests of
\* one user, also when the failing call appended nothing itself.
C16_RollbackPopsOwnTurn ==
    [][ \A k \in Calls :
          rollback_pop(k)
              => LET t == heap[calls[k].conversation]
                 IN  (Len(t) > 0 /\ Last(t).role = "user") => Last(t).id = calls[k].id ]_vars

\* C17: when clear_chat of a user ran while a chat_api call of that user
\* waited for the inference endpoint, the transcript stored for the user
\* when that call has returned, successfully or not, holds none of the turns
\* that were in the transcript before the clear.
C17_ClearNotUndone ==
    ChatReturned => Turns(Stored(resp.sess)) \cap resp.call.wiped = {}

\* C18: the messages of every request posted to the inference endpoint are
\* the user's stored transcript of that moment, ending with the user turn
\* just appended, and begin with the system turn as long as the transcript
\* is too short to have been truncated.
C18_UpstreamIsTranscript ==
    posted # NoReq
        => /\ posted.messages = Visible(Stored(posted.user))
           /\ Last(posted.messages).role = "user"
           /\ Len(posted.messages) < MAX_MESSAGES => posted.messages[1].role = "system"

\* C19: the account routes leave conversation_cache and its lists as they
\* are, and a transcript that holds an assistant turn becomes empty only by
\* a step of clear_chat of its user.
AccountOp ==
    \/ \E c \in Clients, u \in Users, pwok \in BOOLEAN : login_post(c, u, pwok)
    \/ \E u \in Users : register_post(u)
    \/ \E c \in Clients : logout(c)
    \/ \E c \in Clients : delete_account(c)

C19_EmptiedOnlyByClear ==
    [][ /\ AccountOp => UNCHANGED << conversation_cache, heap >>
        /\ \A u \in Users :
              ((\E i \in 1..Len(Stored(u)) : Stored(u)[i].role = "assistant")
                  /\ Stored(u)' = << >>)
                  => (resp'.op = "clear" /\ resp'.sess = u) ]_vars

====
